---- MODULE Spec2Model ----
(***************************************************************************)
(* Model of extract_http_log.py: reconstruction of HTTP access-log lines   *)
(* from two dissector field streams (responses first, then requests).      *)
(*                                                                         *)
(* Text is modelled as a sequence of characters.  A character is a         *)
(* one-character string for printable ASCII, or one of the tokens          *)
(* "U+0060" (the grave accent), "U+00E9" (a two-byte code point), "U+FFFD"  *)
(* (the replacement character of decode(errors="replace")) and "ctl" (a    *)
(* control character).                                                     *)
(* A Python None is the empty tuple <<>> and a present value x is <<x>>.   *)
(***************************************************************************)
EXTENDS Integers, Sequences, FiniteSets, TLC

\* ------------------------------------------------------------------ text

None == <<>>
Some(x) == <<x>>

\* Printable ASCII in code order; AsciiPrintable[i] has code i + 31.
AsciiPrintable ==
  << " ", "!", "\"", "#", "$", "%", "&", "'", "(", ")", "*", "+", ",", "-", ".", "/",
     "0", "1", "2", "3", "4", "5", "6", "7", "8", "9", ":", ";", "<", "=", ">", "?",
     "@", "A", "B", "C", "D", "E", "F", "G", "H", "I", "J", "K", "L", "M", "N", "O",
     "P", "Q", "R", "S", "T", "U", "V", "W", "X", "Y", "Z", "[", "\\", "]", "^", "_",
     "U+0060", "a", "b", "c", "d", "e", "f", "g", "h", "i", "j", "k", "l", "m", "n", "o",
     "p", "q", "r", "s", "t", "u", "v", "w", "x", "y", "z", "{", "|", "}", "~" >>

IsAscii(c) == \E i \in 1..Len(AsciiPrintable) : AsciiPrintable[i] = c

\* ord(c): the code point of a character.
Ord(c) ==
  IF IsAscii(c) THEN (CHOOSE i \in 1..Len(AsciiPrintable) : AsciiPrintable[i] = c) + 31
  ELSE IF c = "ctl" THEN 1
  ELSE IF c = "U+00E9" THEN 233
  ELSE 65533

\* One decoded byte of bytes.decode("utf-8", errors="replace"); a byte >= 0x80
\* that starts no valid sequence is replaced (multi-byte sequences are outside
\* the input alphabet of the model).
Chr(b) ==
  IF b >= 32 /\ b <= 126 THEN AsciiPrintable[b - 31]
  ELSE IF b < 128 THEN "ctl"
  ELSE "U+FFFD"

\* len(c.encode("utf-8")) of one character.
Utf8Len(c) ==
  IF Ord(c) < 128 THEN 1 ELSE IF Ord(c) < 2048 THEN 2 ELSE 3

Digits == <<"0", "1", "2", "3", "4", "5", "6", "7", "8", "9">>
IsDigit(c) == \E i \in 1..10 : Digits[i] = c
DigitVal(c) == (CHOOSE i \in 1..10 : Digits[i] = c) - 1

\* string.hexdigits
hex_chars ==
  {Digits[i] : i \in 1..10} \cup {"a", "b", "c", "d", "e", "f", "A", "B", "C", "D", "E", "F"}

HexVal(c) ==
  IF IsDigit(c) THEN DigitVal(c)
  ELSE IF Ord(c) >= 97 THEN Ord(c) - 87
  ELSE Ord(c) - 55

\* str.lower() on one character (ASCII letters).
LowerChar(c) ==
  IF IsAscii(c) /\ Ord(c) >= 65 /\ Ord(c) <= 90 THEN Chr(Ord(c) + 32) ELSE c

Lower(s) == [i \in 1..Len(s) |-> LowerChar(s[i])]

RECURSIVE DecimalValue(_)
DecimalValue(s) ==
  IF s = <<>> THEN 0
  ELSE 10 * DecimalValue(SubSeq(s, 1, Len(s) - 1)) + DigitVal(s[Len(s)])

AllDigits(s) == \A i \in 1..Len(s) : IsDigit(s[i])

\* str(n) for an integer n.
RECURSIVE NatStr(_)
NatStr(n) ==
  IF n < 10 THEN <<Digits[n + 1]>> ELSE NatStr(n \div 10) \o <<Digits[(n % 10) + 1]>>

IntStr(n) == IF n < 0 THEN <<"-">> \o NatStr(0 - n) ELSE NatStr(n)

\* Lexicographic order of strings by code point (the order sort_keys uses).
RECURSIVE StrLess(_, _)
StrLess(a, b) ==
  IF b = <<>> THEN FALSE
  ELSE IF a = <<>> THEN TRUE
  ELSE IF Ord(a[1]) /= Ord(b[1]) THEN Ord(a[1]) < Ord(b[1])
  ELSE StrLess(Tail(a), Tail(b))

\* ---------------------------------------------------------- JSON values

JNull == [t |-> "null"]
JBool(b) == [t |-> "bool", b |-> b]
JNum(n) == [t |-> "num", n |-> n]
JStr(s) == [t |-> "str", s |-> s]
JArr(a) == [t |-> "arr", a |-> a]
JObj(m) == [t |-> "obj", m |-> m]

\* json.loads on the grammar: objects, arrays, strings without escapes,
\* integers, true, false, null, blanks between tokens.
Fail == [ok |-> FALSE, v |-> JNull, i |-> 0]
Ok(v, i) == [ok |-> TRUE, v |-> v, i |-> i]

RECURSIVE SkipWs(_, _)
SkipWs(s, i) == IF i <= Len(s) /\ s[i] = " " THEN SkipWs(s, i + 1) ELSE i

At(s, i, c) == i <= Len(s) /\ s[i] = c

Lit(s, i, w) == i + Len(w) - 1 <= Len(s) /\ SubSeq(s, i, i + Len(w) - 1) = w

RECURSIVE DigitsEnd(_, _)
DigitsEnd(s, i) == IF i <= Len(s) /\ IsDigit(s[i]) THEN DigitsEnd(s, i + 1) ELSE i

ParseNat(s, i) ==
  LET e == DigitsEnd(s, i) IN
  IF e = i THEN Fail
  ELSE IF s[i] = "0" THEN Ok(JNum(0), i + 1)
  ELSE Ok(JNum(DecimalValue(SubSeq(s, i, e - 1))), e)

ParseNumber(s, i) ==
  IF At(s, i, "-")
  THEN LET r == ParseNat(s, i + 1) IN IF r.ok THEN Ok(JNum(0 - r.v.n), r.i) ELSE Fail
  ELSE ParseNat(s, i)

ParseString(s, i) ==
  IF ~At(s, i, "\"") THEN Fail
  ELSE IF ~\E j \in (i + 1)..Len(s) : s[j] = "\"" THEN Fail
  ELSE LET j == CHOOSE j \in (i + 1)..Len(s) :
                   s[j] = "\"" /\ \A k \in (i + 1)..(j - 1) : s[k] /= "\""
           body == SubSeq(s, i + 1, j - 1)
       IN IF \E k \in 1..Len(body) : body[k] \in {"\\", "ctl"} THEN Fail
          ELSE Ok(JStr(body), j + 1)

\* m extended with key k bound to v (a repeated key keeps the last value).
Bind(m, k, v) == [x \in DOMAIN m \cup {k} |-> IF x = k THEN v ELSE m[x]]

\* The scanner: the tokens of s from position i on, a punctuation mark c or
\* a scalar value v each.
Punct(c) == [k |-> "p", c |-> c, v |-> JNull]
Scalar(v) == [k |-> "v", c |-> "", v |-> v]

ScanOne(s, i) ==
  IF s[i] \in {"{", "}", "[", "]", ":", ","} THEN Ok(Punct(s[i]), i + 1)
  ELSE LET r == IF s[i] = "\"" THEN ParseString(s, i)
                ELSE IF Lit(s, i, <<"t", "r", "u", "e">>) THEN Ok(JBool(TRUE), i + 4)
                ELSE IF Lit(s, i, <<"f", "a", "l", "s", "e">>) THEN Ok(JBool(FALSE), i + 5)
                ELSE IF Lit(s, i, <<"n", "u", "l", "l">>) THEN Ok(JNull, i + 4)
                ELSE ParseNumber(s, i)
       IN IF r.ok THEN Ok(Scalar(r.v), r.i) ELSE Fail

RECURSIVE Scan(_, _, _)
Scan(s, i0, acc) ==
  LET i == SkipWs(s, i0) IN
  IF i > Len(s) THEN [ok |-> TRUE, toks |-> acc]
  ELSE LET r == ScanOne(s, i) IN
    IF r.ok THEN Scan(s, r.i, Append(acc, r.v)) ELSE [ok |-> FALSE, toks |-> <<>>]

\* The parser: a stack of the containers being built over a bottom frame
\* that receives the document's value.  st is what may come next: "val" a
\* value, "first" a value or the container's close, "key", "colon", "next"
\* (a comma or the container's close), "end".
Frame(kind) == [kind |-> kind, m |-> <<>>, a |-> <<>>, key |-> <<>>, v |-> JNull]

Top(stack) == stack[Len(stack)]
Pop(stack) == SubSeq(stack, 1, Len(stack) - 1)

Deliver(stack, v) ==
  LET f == Top(stack)
      g == IF f.kind = "arr" THEN [f EXCEPT !.a = Append(f.a, v)]
           ELSE IF f.kind = "obj" THEN [f EXCEPT !.m = Bind(f.m, f.key, v)]
           ELSE [f EXCEPT !.v = v]
  IN Append(Pop(stack), g)

After(stack) == IF Len(stack) = 1 THEN "end" ELSE "next"

Closed(f) == IF f.kind = "arr" THEN JArr(f.a) ELSE JObj(f.m)

RECURSIVE Parse(_, _, _, _)
Parse(toks, i, stack, st) ==
  IF i > Len(toks) THEN (IF st = "end" THEN Ok(stack[1].v, i) ELSE Fail)
  ELSE LET t == toks[i]
           f == Top(stack)
           closes == t.k = "p" /\ ((f.kind = "arr" /\ t.c = "]") \/ (f.kind = "obj" /\ t.c = "}"))
           down == Deliver(Pop(stack), Closed(f))
       IN
    IF st \in {"first", "next"} /\ closes THEN Parse(toks, i + 1, down, After(down))
    ELSE IF st = "next" THEN
      (IF t.k = "p" /\ t.c = ","
       THEN Parse(toks, i + 1, stack, IF f.kind = "obj" THEN "key" ELSE "val")
       ELSE Fail)
    ELSE IF st = "colon" THEN
      (IF t.k = "p" /\ t.c = ":" THEN Parse(toks, i + 1, stack, "val") ELSE Fail)
    ELSE IF st = "key" \/ (st = "first" /\ f.kind = "obj") THEN
      (IF t.k = "v" /\ t.v.t = "str"
       THEN Parse(toks, i + 1, Append(Pop(stack), [f EXCEPT !.key = t.v.s]), "colon")
       ELSE Fail)
    ELSE IF st \in {"val", "first"} THEN
      (IF t.k = "v" THEN Parse(toks, i + 1, Deliver(stack, t.v), After(stack))
       ELSE IF t.c = "{" THEN Parse(toks, i + 1, Append(stack, Frame("obj")), "first")
       ELSE IF t.c = "[" THEN Parse(toks, i + 1, Append(stack, Frame("arr")), "first")
       ELSE Fail)
    ELSE Fail

ParseTokens(sc) ==
  IF sc.ok THEN Parse(sc.toks, 1, <<Frame("top")>>, "val") ELSE Fail

json_loads(s) == ParseTokens(Scan(s, 1, <<>>))

\* json.dumps(v, ensure_ascii=False[, sort_keys=True]) with the default
\* separators ", " and ": ".  Keys are rendered in sorted order: the code
\* passes sort_keys for every dict or list, and a scalar has no keys.
Escape(s) ==
  LET E(c) == IF c = "\"" THEN <<"\\", "\"">>
              ELSE IF c = "\\" THEN <<"\\", "\\">> ELSE <<c>>
      F[n \in 0..Len(s)] == IF n = 0 THEN <<>> ELSE F[n - 1] \o E(s[n])
  IN F[Len(s)]

RECURSIVE SortedKeys(_)
SortedKeys(ks) ==
  IF ks = {} THEN <<>>
  ELSE LET k == CHOOSE x \in ks : \A o \in ks \ {x} : StrLess(x, o)
       IN <<k>> \o SortedKeys(ks \ {k})

Comma(n) == IF n > 1 THEN <<",", " ">> ELSE <<>>

RECURSIVE json_dumps(_)
json_dumps(v) ==
  CASE v.t = "null" -> <<"n", "u", "l", "l">>
    [] v.t = "bool" -> (IF v.b THEN <<"t", "r", "u", "e">> ELSE <<"f", "a", "l", "s", "e">>)
    [] v.t = "num" -> IntStr(v.n)
    [] v.t = "str" -> <<"\"">> \o Escape(v.s) \o <<"\"">>
    [] v.t = "arr" ->
         LET F[n \in 0..Len(v.a)] ==
               IF n = 0 THEN <<>> ELSE F[n - 1] \o Comma(n) \o json_dumps(v.a[n])
         IN <<"[">> \o F[Len(v.a)] \o <<"]">>
    [] v.t = "obj" ->
         LET ks == SortedKeys(DOMAIN v.m)
             F[n \in 0..Len(ks)] ==
               IF n = 0 THEN <<>>
               ELSE F[n - 1] \o Comma(n) \o <<"\"">> \o Escape(ks[n]) \o <<"\"", ":", " ">>
                      \o json_dumps(v.m[ks[n]])
         IN <<"{">> \o F[Len(ks)] \o <<"}">>

\* -------------------------------------------------------- Body Normalizer

pw == <<"p", "a", "s", "s", "w", "o", "r", "d">>
tok == <<"t", "o", "k", "e", "n">>

MASK_KEYS ==
  { Lower(k) : k \in
    { pw,
      <<"p", "a", "s", "s", "w", "d">>,
      tok,
      <<"a", "c", "c", "e", "s", "s", "_">> \o tok,
      <<"r", "e", "f", "r", "e", "s", "h", "_">> \o tok,
      <<"s", "e", "c", "r", "e", "t">>,
      <<"s", "s", "n">> } }

Redacted == JStr(<<"*", "*", "*", "*", "*", "*">>)

\* A masking that compares the keys as they are spelled.
RECURSIVE mask_value_exact(_)
mask_value_exact(v) ==
  IF v.t = "obj" THEN
    JObj([k \in DOMAIN v.m |-> IF k \in MASK_KEYS THEN Redacted ELSE mask_value_exact(v.m[k])])
  ELSE IF v.t = "arr" THEN
    JArr([i \in 1..Len(v.a) |-> mask_value_exact(v.a[i])])
  ELSE v

RECURSIVE mask_value(_)
mask_value(v) ==
  IF v.t = "obj" THEN
    JObj([k \in DOMAIN v.m |-> IF Lower(k) \in MASK_KEYS THEN Redacted ELSE mask_value(v.m[k])])
  ELSE IF v.t = "arr" THEN
    JArr([i \in 1..Len(v.a) |-> mask_value(v.a[i])])
  ELSE v

IsHexLike(s) == Len(s) % 2 = 0 /\ \A i \in 1..Len(s) : s[i] \in hex_chars

\* bytes.fromhex(s).decode("utf-8", errors="replace")
FromHex(s) == [i \in 1..(Len(s) \div 2) |-> Chr(16 * HexVal(s[2 * i - 1]) + HexVal(s[2 * i]))]

\* [text, same]: same is "the result is the argument object itself".
try_decode_hex(s) ==
  IF IsHexLike(s) THEN [text |-> FromHex(s), same |-> (s = <<>>)]
  ELSE [text |-> s, same |-> TRUE]

\* Lines 68-76, after the direct parse failed; maybe_text is the result of
\* try_decode_hex and viaHex the parse of its text.
HexPath(body, maybe_text, viaHex) ==
  IF ~maybe_text.same THEN
    (IF viaHex.ok THEN [value |-> viaHex.v, is_json |-> TRUE]
     ELSE [value |-> JStr(maybe_text.text), is_json |-> FALSE])
  ELSE [value |-> JStr(body), is_json |-> FALSE]

Classify(body, direct, maybe_text) ==
  IF direct.ok THEN [value |-> direct.v, is_json |-> TRUE]
  ELSE HexPath(body, maybe_text, json_loads(maybe_text.text))

parse_body_to_json(body) == Classify(body, json_loads(body), try_decode_hex(body))

\* payload = mask_value(raw) if is_json else raw; then json.dumps.
Payload(p) == IF p.is_json THEN mask_value(p.value) ELSE p.value

body_json(body) == json_dumps(Payload(parse_body_to_json(body)))

\* ------------------------------------------------- numbers and timestamps

RECURSIVE Strip(_)
Strip(s) ==
  IF s /= <<>> /\ s[1] = " " THEN Strip(Tail(s))
  ELSE IF s /= <<>> /\ s[Len(s)] = " " THEN Strip(SubSeq(s, 1, Len(s) - 1))
  ELSE s

Unsigned(s) == IF s /= <<>> /\ s[1] \in {"+", "-"} THEN Tail(s) ELSE s
Negative(s) == s /= <<>> /\ s[1] = "-"

\* int(s): None when int() raises ValueError, else the integer.
ParseInt(s) ==
  LET u == Unsigned(Strip(s)) IN
  IF u = <<>> \/ ~AllDigits(u) THEN None
  ELSE Some(IF Negative(Strip(s)) THEN 0 - DecimalValue(u) ELSE DecimalValue(u))

\* float(s) on the numerals [sign] digits [. digits], inf and nan:
\* [ok, finite, sec] with sec the floor of the value, exact when
\* [frac] holds no fraction.  ok = FALSE is ValueError.
ParseFloat(s) ==
  LET t == Strip(s)
      u == Lower(Unsigned(t))
      dot == IF \E i \in 1..Len(u) : u[i] = "." THEN CHOOSE i \in 1..Len(u) : u[i] = "." ELSE 0
      ip == IF dot = 0 THEN u ELSE SubSeq(u, 1, dot - 1)
      fp == IF dot = 0 THEN <<>> ELSE SubSeq(u, dot + 1, Len(u))
      bad == [ok |-> FALSE, finite |-> FALSE, sec |-> 0]
  IN IF u \in {<<"i", "n", "f">>, <<"n", "a", "n">>} THEN [ok |-> TRUE, finite |-> FALSE, sec |-> 0]
     ELSE IF ip \o fp = <<>> \/ ~AllDigits(ip) \/ ~AllDigits(fp) THEN bad
     ELSE LET whole == DecimalValue(ip)
              hasFrac == DecimalValue(fp) > 0
          IN [ok |-> TRUE, finite |-> TRUE,
              sec |-> IF Negative(t) THEN (IF hasFrac THEN 0 - whole - 1 ELSE 0 - whole)
                      ELSE whole]

Months ==
  << <<"J", "a", "n">>, <<"F", "e", "b">>, <<"M", "a", "r">>, <<"A", "p", "r">>,
     <<"M", "a", "y">>, <<"J", "u", "n">>, <<"J", "u", "l">>, <<"A", "u", "g">>,
     <<"S", "e", "p">>, <<"O", "c", "t">>, <<"N", "o", "v">>, <<"D", "e", "c">> >>

FloorDiv(a, b) == IF a >= 0 THEN a \div b ELSE 0 - ((b - 1 - a) \div b)

RECURSIVE Pad(_, _)
Pad(s, w) == IF Len(s) >= w THEN s ELSE Pad(<<"0">> \o s, w)

\* datetime.fromtimestamp(sec, tz=utc): the proleptic Gregorian date of a
\* count of seconds since 1970-01-01T00:00:00Z.
CivilFromSeconds(sec) ==
  LET days == FloorDiv(sec, 86400)
      rem == sec - days * 86400
      z == days + 719468
      era == FloorDiv(z, 146097)
      doe == z - era * 146097
      yoe == (doe - doe \div 1460 + doe \div 36524 - doe \div 146096) \div 365
      doy == doe - (365 * yoe + yoe \div 4 - yoe \div 100)
      mp == (5 * doy + 2) \div 153
      d == doy - (153 * mp + 2) \div 5 + 1
      m == IF mp < 10 THEN mp + 3 ELSE mp - 9
      y == yoe + era * 400 + (IF m <= 2 THEN 1 ELSE 0)
  IN [year |-> y, month |-> m, day |-> d,
      hour |-> rem \div 3600, minute |-> (rem % 3600) \div 60, second |-> rem % 60]

\* dt.strftime("[%d/%b/%Y:%H:%M:%S %z]") for a UTC datetime.
strftime(dt) ==
  <<"[">> \o Pad(NatStr(dt.day), 2) \o <<"/">> \o Months[dt.month] \o <<"/">>
    \o Pad(NatStr(dt.year), 4) \o <<":">> \o Pad(NatStr(dt.hour), 2) \o <<":">>
    \o Pad(NatStr(dt.minute), 2) \o <<":">> \o Pad(NatStr(dt.second), 2)
    \o <<" ", "+", "0", "0", "0", "0", "]">>

\* Lines 285-292 and 322-326: [raises, time_t].  float(ts) raises on a
\* numeral it cannot parse and fromtimestamp raises on inf and nan; an
\* empty field gives the placeholder.
TimePlaceholder == <<"[", "-", "]">>

time_t(ts) ==
  IF ts = <<>> THEN [raises |-> FALSE, text |-> TimePlaceholder]
  ELSE LET f == ParseFloat(ts) IN
    IF ~f.ok \/ ~f.finite THEN [raises |-> TRUE, text |-> <<>>]
    ELSE [raises |-> FALSE, text |-> strftime(CivilFromSeconds(f.sec))]

\* ------------------------------------------------------ Response Ingestor

RECURSIVE Utf8Size(_)
Utf8Size(s) == IF s = <<>> THEN 0 ELSE Utf8Len(s[1]) + Utf8Size(Tail(s))

\* A size that takes any body of hex digits for hex, of odd length too.
size_bytes_any_hex(rclen, rbody) ==
  IF rclen /= <<>> /\ AllDigits(rclen) THEN DecimalValue(rclen)
  ELSE IF \A i \in 1..Len(rbody) : rbody[i] \in hex_chars THEN Len(rbody) \div 2
  ELSE Utf8Size(rbody)

\* Lines 211-229: the size in bytes of one response.
size_bytes(rclen, rbody) ==
  IF rclen /= <<>> /\ AllDigits(rclen) THEN DecimalValue(rclen)
  ELSE IF IsHexLike(rbody) THEN Len(rbody) \div 2
  ELSE Utf8Size(rbody)

\* Lines 203 and 260: the least number of columns of an accepted tuple.
MinResponseColumns == 6
MinRequestColumns == 15

Dash == <<"-">>
OrDash(x) == IF x = <<>> THEN Dash ELSE x

\* A popleft that leaves the record in the queue.
peekleft(q) == [item |-> Head(q), rest |-> q]

\* collections.deque: append on the right, popleft on the left.
popleft(q) == [item |-> Head(q), rest |-> Tail(q)]

\* Lines 202-244: one iteration of the response loop on the columns rparts
\* of one line; rid is the ordinal of the line in the response stream (kept
\* with the record so that two equal responses stay two records).
IngestResponse(by_stream, rparts, rid) ==
  IF Len(rparts) < MinResponseColumns THEN by_stream
  ELSE LET rstream == rparts[2]
           rstatus == rparts[3]
           rclen == rparts[4]
           rbody == rparts[6]
           sidx == ParseInt(rstream)
       IN IF sidx = None THEN by_stream
          ELSE LET rec == [status |-> IF rstatus = <<>> THEN None ELSE Some(rstatus),
                           bytes |-> size_bytes(rclen, rbody),
                           body_json |-> body_json(rbody),
                           rid |-> rid]
                   rq == IF sidx[1] \in DOMAIN by_stream THEN by_stream[sidx[1]] ELSE <<>>
               IN [k \in DOMAIN by_stream \cup {sidx[1]} |->
                     IF k = sidx[1] THEN Append(rq, rec) ELSE by_stream[k]]

\* The pairing written with setdefault: an absent session gets a queue.
PairResponseSetdefault(by_stream, stream) ==
  LET sidx == IF stream = <<>> THEN None ELSE ParseInt(stream) IN
  IF sidx = None THEN [rinfo |-> None, by_stream |-> by_stream]
  ELSE IF sidx[1] \in DOMAIN by_stream /\ by_stream[sidx[1]] /= <<>>
  THEN [rinfo |-> Some(Head(by_stream[sidx[1]])),
        by_stream |-> [by_stream EXCEPT ![sidx[1]] = Tail(by_stream[sidx[1]])]]
  ELSE [rinfo |-> None,
        by_stream |-> [k \in DOMAIN by_stream \cup {sidx[1]} |->
                         IF k \in DOMAIN by_stream THEN by_stream[k] ELSE <<>>]]

\* Lines 303-314: [rinfo, by_stream] after pairing a request of session
\* field stream.
PairResponse(by_stream, stream) ==
  LET sidx == IF stream = <<>> THEN None ELSE ParseInt(stream) IN
  IF sidx /= None /\ sidx[1] \in DOMAIN by_stream /\ by_stream[sidx[1]] /= <<>>
  THEN LET p == popleft(by_stream[sidx[1]]) IN
       [rinfo |-> Some(p.item),
        by_stream |-> [by_stream EXCEPT ![sidx[1]] = p.rest]]
  ELSE [rinfo |-> None, by_stream |-> by_stream]

\* Lines 316-362: the fields of the line written for one request; q is the
\* ordinal of the request line in the request stream.
RenderLine(parts, tt, rinfo, q) ==
  LET src == parts[3]
      src_port == parts[4]
      dst == parts[5]
      dst_port == parts[6]
      method == parts[7]
      uri == parts[8]
      version == parts[11]
      user_agent == parts[12]
      referer == parts[13]
      body == parts[15]
      status == IF rinfo = None THEN None ELSE rinfo[1].status
      resp_bytes == IF rinfo = None THEN None ELSE Some(rinfo[1].bytes)
  IN [host_h |-> OrDash(src),
      ident_l |-> Dash,
      authuser_u |-> Dash,
      time_t |-> tt,
      request_line |-> OrDash(method) \o <<" ">> \o (IF uri = <<>> THEN <<"/">> ELSE uri)
                         \o <<" ">> \o OrDash(version),
      status_s |-> IF status = None THEN Dash ELSE status[1],
      bytes_b |-> IF resp_bytes = None THEN Dash ELSE IntStr(resp_bytes[1]),
      referer_q |-> OrDash(referer),
      ua_q |-> OrDash(user_agent),
      src |-> OrDash(src) \o <<":">> \o OrDash(src_port),
      dst |-> OrDash(dst) \o <<":">> \o OrDash(dst_port),
      req_body_json |-> body_json(body),
      res_body_json |-> IF rinfo = None THEN <<"n", "u", "l", "l">> ELSE rinfo[1].body_json,
      req |-> q,
      rid |-> IF rinfo = None THEN None ELSE Some(rinfo[1].rid)]

\* Lines 280-363: the request loop's body for a line of at least
\* MinRequestColumns columns.  The timestamp is converted (lines 285-292)
\* before the response is popped (lines 311-314), so an exception there
\* leaves the queues as they were and writes nothing.
Paired(parts, tt, pr, q) ==
  [raises |-> FALSE, by_stream |-> pr.by_stream,
   written |-> <<RenderLine(parts, tt.text, pr.rinfo, q)>>]

Timed(by_stream, parts, tt, q) ==
  IF tt.raises THEN [raises |-> TRUE, by_stream |-> by_stream, written |-> <<>>]
  ELSE Paired(parts, tt, PairResponse(by_stream, parts[2]), q)

FormatAccepted(by_stream, parts, q) == Timed(by_stream, parts, time_t(parts[1]), q)

\* A request loop that pairs before it looks at the number of columns.
FormatRequestPairFirst(by_stream, parts, q) ==
  IF Len(parts) < MinRequestColumns
  THEN [raises |-> FALSE, by_stream |-> PairResponse(by_stream, parts[2]).by_stream,
        written |-> <<>>]
  ELSE FormatAccepted(by_stream, parts, q)

\* Lines 259-363: one iteration of the request loop on the columns parts of
\* one line: [raises, by_stream, written].
FormatRequest(by_stream, parts, q) ==
  IF Len(parts) < MinRequestColumns
  THEN [raises |-> FALSE, by_stream |-> by_stream, written |-> <<>>]
  ELSE FormatAccepted(by_stream, parts, q)

\* ----------------------------------------------------------- the inputs

MaxResponses == 3
MaxRequests == 3

W(a) == <<a>>
ctJson == <<"j">>
okBody == <<"[", "t", "r", "u", "e", "]">>
\* hex of {"ssn":1}
hexBody == <<"7", "b", "2", "2", "7", "3", "7", "3", "6", "e", "2", "2", "3", "a", "3", "1", "7", "d">>
pwBody == <<"{", "\"", "S", "S", "N", "\"", ":", "1", "}">>

RespTuple(stream, status, clen, body) == <<W("1"), stream, status, clen, ctJson, body>>

ResponseTuples ==
  { <<W("1"), W("0"), <<"2", "0", "0">>, <<"1", "3">>, ctJson>>,
    RespTuple(W("0"), <<"2", "0", "0">>, <<"1", "3">>, okBody),
    RespTuple(W("1"), <<>>, <<>>, hexBody),
    RespTuple(W("x"), <<"4", "0", "4">>, <<>>, <<"a", "b", "c">>) }

ReqTuple(ts, stream, body) ==
  <<ts, stream, <<"h", "1">>, <<"8">>, <<"h", "2">>, <<"8", "0">>, <<"G", "E", "T">>,
    <<"/", "a">>, <<>>, <<"h">>, <<"H", "/", "1">>, <<"c">>, <<>>, ctJson, body>>

BareTuple(ts, stream) ==
  <<ts, stream, <<>>, <<>>, <<>>, <<>>, <<>>, <<>>, <<>>, <<>>, <<>>, <<>>, <<>>, <<>>, <<>>>>

RequestTuples ==
  { SubSeq(ReqTuple(<<"9">>, W("0"), pwBody), 1, 14),
    ReqTuple(<<"9", "9", "9">>, <<" ", "0">>, pwBody),
    ReqTuple(<<>>, W("1"), <<"h", "i">>),
    BareTuple(<<>>, <<>>),
    BareTuple(<<"1", ".", "5">>, W("x")),
    ReqTuple(<<"a", "b", "c">>, W("0"), pwBody),
    BareTuple(<<"i", "n", "f">>, W("1")) }

\* ------------------------------------------------------------ the program

VARIABLES
  pc,                   \* "responses", "requests", "done" or "aborted"
  responses_by_stream,  \* session id -> queue of response records
  out,                  \* the lines written so far
  rlines,               \* history: the response lines read so far
  qlines,               \* history: the request lines read so far
  input                 \* the capture's body or size fields, where one is fixed

vars == <<pc, responses_by_stream, out, rlines, qlines, input>>

Start ==
  /\ pc = "responses"
  /\ responses_by_stream = <<>>
  /\ out = <<>>
  /\ rlines = <<>>
  /\ qlines = <<>>

Init == Start /\ input = <<>>

\* Line 201 within lines 195-248: the response loop runs until its stream
\* ends, before the request stream is opened.
InResponsePhase == pc = "responses"

\* A request loop started while the response stream is still being read.
InEitherPhase == pc \in {"responses", "requests"}

\* Line 258 within lines 250-363: the request loop runs after line 248.
InRequestPhase == pc = "requests"

\* A writer that puts the newest line first.
WriteFirst(written) == written \o out

\* Line 363: out.write(line_out + "\n").
Write(written) == out \o written

\* Lines 201-244: the response loop reads one more line.
ReadResponse(rline) ==
  /\ InResponsePhase
  /\ Len(rlines) < MaxResponses
  /\ rlines' = Append(rlines, rline)
  /\ responses_by_stream' = IngestResponse(responses_by_stream, rline, Len(rlines) + 1)
  /\ UNCHANGED <<pc, out, qlines, input>>

\* Lines 246-256: the response stream ends; the request stream is opened.
EndResponses ==
  /\ pc = "responses"
  /\ pc' = "requests"
  /\ UNCHANGED <<responses_by_stream, out, rlines, qlines, input>>

\* One iteration of the request loop with result r: an exception leaves
\* the loop through the finally block (lines 364-369).
Processed(r) ==
  /\ responses_by_stream' = r.by_stream
  /\ out' = Write(r.written)
  /\ pc' = IF r.raises THEN "aborted" ELSE pc

\* Lines 258-363: the request loop reads one more line.
ReadRequest(line) ==
  /\ InRequestPhase
  /\ Len(qlines) < MaxRequests
  /\ qlines' = Append(qlines, line)
  /\ Processed(FormatRequest(responses_by_stream, line, Len(qlines) + 1))
  /\ UNCHANGED <<rlines, input>>

\* Lines 364-369: the request stream ends.
EndRequests ==
  /\ pc = "requests"
  /\ pc' = "done"
  /\ UNCHANGED <<responses_by_stream, out, rlines, qlines, input>>

Next ==
  \/ \E rline \in ResponseTuples : ReadResponse(rline)
  \/ EndResponses
  \/ \E line \in RequestTuples : ReadRequest(line)
  \/ EndRequests

Spec == Init /\ [][Next]_vars


\* ------------------------------------------- runs over one size or body

MaxBodyLen == 3
MaskDepth == 2

\* The content-length fields and bodies of the size runs.
SizeLengths ==
  { <<>>, <<"0">>, <<"1", "3">>, <<"0", "0", "7">>, <<"-", "1">>, <<"+", "5">>, <<"1", "x">> }

SizeBodies == UNION { [1..n -> {"a", "b", "c", "g", "U+00E9"}] : n \in 0..MaxBodyLen }

\* The dissector's hex rendering of a text of ASCII characters.
HexDigit(n) == IF n < 10 THEN Digits[n + 1] ELSE Chr(87 + n)
ToHex(s) ==
  [i \in 1..(2 * Len(s)) |->
     IF i % 2 = 1 THEN HexDigit(Ord(s[(i + 1) \div 2]) \div 16)
     ELSE HexDigit(Ord(s[i \div 2]) % 16)]

\* The JSON documents of the body runs: scalars, and arrays and objects
\* nested to MaskDepth, under keys that are sensitive in lower case (pw),
\* sensitive in mixed case (Token) and not sensitive (user).
Token == <<"T", "o", "k", "e", "n">>
user == <<"u", "s", "e", "r">>
Scalars == {JStr(<<"x">>), JNum(1)}

Grow(sub) ==
  Scalars
    \cup {JArr(<<JNum(1), x>>) : x \in sub}
    \cup {JObj(k :> x) : k \in {pw, Token, user}, x \in sub}
    \cup {JObj((Token :> JStr(<<"x">>)) @@ (user :> x)) : x \in sub}

RECURSIVE Documents(_)
Documents(d) == IF d = 0 THEN Scalars ELSE Grow(Documents(d - 1))

\* A document as the dissector hands it over: as text, as the hex of its
\* octets, and behind a character that makes it no JSON.
Encodings(text) == {text, ToHex(text), <<"x">> \o text}

MaskBodies == UNION { Encodings(json_dumps(v)) : v \in Documents(MaskDepth) }

\* One capture whose responses all carry the same size fields.
SizeInit == Start /\ input \in SizeLengths \X SizeBodies

SizeNext ==
  \/ ReadResponse(RespTuple(W("0"), <<"2", "0", "0">>, input[1], input[2]))
  \/ EndResponses

SpecSize == SizeInit /\ [][SizeNext]_vars

\* One capture whose responses and requests all carry the same body.
MaskInit == Start /\ input \in MaskBodies

MaskNext ==
  \/ ReadResponse(RespTuple(W("0"), <<"2", "0", "0">>, <<>>, input))
  \/ EndResponses
  \/ ReadRequest(ReqTuple(<<>>, W("0"), input))
  \/ EndRequests

SpecMask == MaskInit /\ [][MaskNext]_vars

\* ------------------------------------------------------------- the claims

\* The session id of a session field: None when the field is empty or no
\* integer.
SessionOf(stream) == IF stream = <<>> THEN None ELSE ParseInt(stream)

\* Response line i was enqueued for session S.
EnqueuedFor(i, S) ==
  Len(rlines[i]) >= MinResponseColumns /\ ParseInt(rlines[i][2]) = Some(S)

\* Request line j is an accepted tuple of session S.
RequestFor(j, S) ==
  Len(qlines[j]) >= MinRequestColumns /\ SessionOf(qlines[j][2]) = Some(S)

Sessions == {0, 1}

ResponsesOf(S) == {i \in 1..Len(rlines) : EnqueuedFor(i, S)}
RequestsOf(S) == {j \in 1..Len(qlines) : RequestFor(j, S)}
Rank(x, set) == Cardinality({y \in set : y <= x})

LineOf(j) == {n \in 1..Len(out) : out[n].req = j}

Null == <<"n", "u", "l", "l">>

Newest(seq) == seq[Len(seq)]
ReadsRequest == qlines' /= qlines
ReadsResponse == rlines' /= rlines
WritesOne == Len(out') = Len(out) + 1

\* C1 (FIFO pairing): the k-th accepted request of session S has a line that
\* carries the k-th response enqueued for S when there is one and no
\* response otherwise, whatever its other fields (timestamp included); the
\* responses of S beyond its requests are still queued and in no line.
C1_FifoPairing ==
  \A S \in Sessions :
    /\ \A j \in RequestsOf(S) :
         \E n \in LineOf(j) :
           out[n].rid = (IF \E i \in ResponsesOf(S) : Rank(i, ResponsesOf(S)) = Rank(j, RequestsOf(S))
                         THEN Some(CHOOSE i \in ResponsesOf(S) :
                                     Rank(i, ResponsesOf(S)) = Rank(j, RequestsOf(S)))
                         ELSE None)
    /\ \A i \in ResponsesOf(S) :
         Rank(i, ResponsesOf(S)) > Cardinality(RequestsOf(S)) =>
           /\ \E n \in 1..Len(responses_by_stream[S]) : responses_by_stream[S][n].rid = i
           /\ \A n \in 1..Len(out) : out[n].rid /= Some(i)

\* The record made of response line i, as a line shows it.
ShowsResponse(l, i) ==
  /\ l.status_s = OrDash(rlines[i][3])
  /\ l.bytes_b = IntStr(size_bytes(rlines[i][4], rlines[i][6]))
  /\ l.res_body_json = body_json(rlines[i][6])

InSomeQueue(i) ==
  \E S \in DOMAIN responses_by_stream :
    \E n \in 1..Len(responses_by_stream[S]) : responses_by_stream[S][n].rid = i

\* C2 (at most one match): no response is carried by two lines; a line that
\* carries a response shows the status, size and body of that response, and
\* that response is no longer queued (a queued response is in no line).
C2_AtMostOneMatch ==
  /\ \A m, n \in 1..Len(out) :
       (m /= n /\ out[m].rid /= None) => out[m].rid /= out[n].rid
  /\ \A n \in 1..Len(out) :
       out[n].rid /= None =>
         /\ out[n].rid[1] \in 1..Len(rlines)
         /\ ShowsResponse(out[n], out[n].rid[1])
         /\ ~InSomeQueue(out[n].rid[1])

C2_Witness ==
  /\ \E m, n \in 1..Len(out) : m /= n /\ out[m].rid /= None /\ out[n].rid /= None
  /\ \E i \in 1..Len(rlines) : InSomeQueue(i)

\* C3 (order preservation): the lines are in the order of the request
\* tuples they were made from, matched or not, whatever the session.
C3_OrderPreserved ==
  /\ \A m, n \in 1..Len(out) : m < n => out[m].req < out[n].req
  /\ \A n \in 1..Len(out) :
       /\ out[n].req \in 1..Len(qlines)
       /\ out[n].host_h = OrDash(qlines[out[n].req][3])
       /\ out[n].req_body_json = body_json(qlines[out[n].req][15])

C3_Witness ==
  \E m, n \in 1..Len(out) :
    /\ m < n
    /\ out[m].rid = None /\ out[n].rid /= None
    /\ qlines[out[m].req][2] /= qlines[out[n].req][2]

Pops ==
  \E S \in DOMAIN responses_by_stream :
    Len(responses_by_stream'[S]) < Len(responses_by_stream[S])

Appends ==
  \E S \in DOMAIN responses_by_stream' :
    \/ S \notin DOMAIN responses_by_stream
    \/ Len(responses_by_stream'[S]) > Len(responses_by_stream[S])

\* C4 (two phases): nothing is popped, written or read from the request
\* stream while the response stream is still being read, and once a request
\* line has been read nothing more is read from the response stream and no
\* queue is created or grows.
C4_TwoPhases ==
  [][ /\ (Pops \/ out' /= out \/ ReadsRequest) => pc /= "responses"
      /\ qlines /= <<>> => (~Appends /\ ~ReadsResponse) ]_vars

C4_Witness ==
  /\ Len(rlines) >= 2 /\ Len(qlines) >= 2
  /\ \E n \in 1..Len(out) : out[n].rid /= None
  /\ \E i \in 1..Len(rlines) : InSomeQueue(i)

NoQueued(stream) ==
  \/ SessionOf(stream) = None
  \/ SessionOf(stream)[1] \notin DOMAIN responses_by_stream
  \/ responses_by_stream[SessionOf(stream)[1]] = <<>>

\* C5 (unmatched request): a step that reads an accepted request tuple
\* whose session has no queued response writes exactly one line, with
\* status "-", bytes "-" and response body null.
C5_UnmatchedRequest ==
  [][ (/\ ReadsRequest
       /\ Len(Newest(qlines')) >= MinRequestColumns
       /\ NoQueued(Newest(qlines')[2]))
      => (/\ WritesOne
          /\ Newest(out').status_s = Dash
          /\ Newest(out').bytes_b = Dash
          /\ Newest(out').res_body_json = Null) ]_vars

\* The timestamp field resolves to no time: it is empty, or float() or
\* fromtimestamp() rejects it.
Unresolvable(ts) == ts = <<>> \/ ~ParseFloat(ts).ok \/ ~ParseFloat(ts).finite

\* C6 (unresolvable timestamp): a step that reads an accepted request tuple
\* whose timestamp cannot be resolved writes its line with the time
\* placeholder, and the run goes on.
C6_UnresolvableTimestamp ==
  [][ (/\ ReadsRequest
       /\ Len(Newest(qlines')) >= MinRequestColumns
       /\ Unresolvable(Newest(qlines')[1]))
      => (/\ pc' = "requests"
          /\ WritesOne
          /\ Newest(out').time_t = TimePlaceholder) ]_vars

\* C7 (short tuples): a step that reads a response tuple of fewer than 6
\* columns or a request tuple of fewer than 15 columns leaves every queue,
\* the output and the state of the run as they were, so what follows is
\* processed as if the tuple had not been in the stream.
C7_ShortTuplesDropped ==
  [][ /\ (ReadsResponse /\ Len(Newest(rlines')) < 6)
           => UNCHANGED <<responses_by_stream, out, pc>>
      /\ (ReadsRequest /\ Len(Newest(qlines')) < 15)
           => UNCHANGED <<responses_by_stream, out, pc>> ]_vars

C7_Witness ==
  /\ \E i, k \in 1..Len(rlines) :
       i < k /\ Len(rlines[i]) < 6 /\ InSomeQueue(k)
  /\ \E j \in 1..Len(qlines) :
       Len(qlines[j]) < 15 /\ \E n \in 1..Len(out) : out[n].req > j /\ out[n].rid /= None

\* C10 (frame of a request step): a step that reads a request tuple of
\* session S creates no queue, leaves the queue of every other session as
\* it was, and leaves S's queue as it was or without its head; with no
\* session id, or no record queued for S, nothing changes.
C10_RequestFrame ==
  [][ ReadsRequest =>
        /\ DOMAIN responses_by_stream' = DOMAIN responses_by_stream
        /\ \A S \in DOMAIN responses_by_stream :
             IF SessionOf(Newest(qlines')[2]) = Some(S) /\ responses_by_stream[S] /= <<>>
             THEN responses_by_stream'[S] \in {responses_by_stream[S], Tail(responses_by_stream[S])}
             ELSE responses_by_stream'[S] = responses_by_stream[S] ]_vars

C10_Witness ==
  /\ \E S, T \in DOMAIN responses_by_stream :
       /\ S /= T
       /\ responses_by_stream[S] /= <<>>
       /\ Cardinality(ResponsesOf(S)) > Len(responses_by_stream[S])
       /\ Cardinality(ResponsesOf(T)) = Len(responses_by_stream[T])
       /\ responses_by_stream[T] /= <<>>
  /\ \E j \in 1..Len(qlines) :
       Len(qlines[j]) >= 15 /\ SessionOf(qlines[j][2]) = None /\ LineOf(j) /= {}

\* w is v with the value of every sensitive key replaced, at every depth,
\* and everything else as it was.
SensitiveNames ==
  { <<"p", "a", "s", "s", "w", "o", "r", "d">>,
    <<"p", "a", "s", "s", "w", "d">>,
    <<"t", "o", "k", "e", "n">>,
    <<"a", "c", "c", "e", "s", "s", "_", "t", "o", "k", "e", "n">>,
    <<"r", "e", "f", "r", "e", "s", "h", "_", "t", "o", "k", "e", "n">>,
    <<"s", "e", "c", "r", "e", "t">>,
    <<"s", "s", "n">> }

Stars == JStr(<<"*", "*", "*", "*", "*", "*">>)

RECURSIVE IsMaskOf(_, _)
IsMaskOf(v, w) ==
  IF v.t = "obj" THEN
    /\ w.t = "obj"
    /\ DOMAIN w.m = DOMAIN v.m
    /\ \A k \in DOMAIN v.m :
         IF Lower(k) \in SensitiveNames THEN w.m[k] = Stars ELSE IsMaskOf(v.m[k], w.m[k])
  ELSE IF v.t = "arr" THEN
    /\ w.t = "arr"
    /\ Len(w.a) = Len(v.a)
    /\ \A i \in 1..Len(v.a) : IsMaskOf(v.a[i], w.a[i])
  ELSE w = v

\* emitted is what a body classified as p may be emitted as.
Judged(body, p, emitted) ==
  IF p.is_json THEN json_loads(emitted).ok /\ IsMaskOf(p.value, json_loads(emitted).v)
  ELSE /\ p.value.s \in {body, FromHex(body)}
       /\ emitted = <<"\"">> \o Escape(p.value.s) \o <<"\"">>

EmittedFor(body, emitted) == Judged(body, parse_body_to_json(body), emitted)

\* C8 (masking): every emitted request or response body whose source was
\* classified as JSON, directly or after hex decoding, is that JSON value
\* with the value of each sensitive key (in any case) replaced by "******"
\* at every depth and all else unchanged; any other body is emitted as the
\* string literal of its text, unmasked.
C8_Masking ==
  /\ \A n \in 1..Len(out) :
       /\ EmittedFor(qlines[out[n].req][15], out[n].req_body_json)
       /\ out[n].rid /= None => EmittedFor(rlines[out[n].rid[1]][6], out[n].res_body_json)
  /\ \A S \in DOMAIN responses_by_stream :
       \A n \in 1..Len(responses_by_stream[S]) :
         EmittedFor(rlines[responses_by_stream[S][n].rid][6], responses_by_stream[S][n].body_json)

\* A hex body that holds an object in an array with a sensitive key in
\* mixed case beside another key, paired and written.
C8_Witness ==
  /\ input = ToHex(json_dumps(JArr(<<JNum(1), JObj((Token :> JStr(<<"x">>)) @@ (user :> JNum(1)))>>)))
  /\ \E n \in 1..Len(out) :
       /\ out[n].rid /= None
       /\ out[n].req_body_json =
            json_dumps(JArr(<<JNum(1), JObj((Token :> Stars) @@ (user :> JNum(1)))>>))
       /\ out[n].res_body_json = out[n].req_body_json

\* The size the fallback chain gives: the declared length when the field is
\* a numeral, else half the length of an even string of hex digits, else
\* the UTF-8 length of the text.
ChainSize(clen, body) ==
  IF clen /= <<>> /\ (\A i \in 1..Len(clen) : clen[i] \in {"0", "1", "2", "3", "4", "5", "6", "7", "8", "9"})
  THEN ParseInt(clen)[1]
  ELSE IF Len(body) % 2 = 0 /\ (\A i \in 1..Len(body) : body[i] \in hex_chars)
  THEN Len(body) \div 2
  ELSE Utf8Size(body)

\* C9 (size chain): every response tuple read is recorded, and its recorded
\* size is the one the fallback chain gives, a natural number.
C9_SizeChain ==
  /\ \A i \in 1..Len(rlines) : Len(rlines[i]) >= 6 /\ ParseInt(rlines[i][2]) /= None => InSomeQueue(i)
  /\ \A S \in DOMAIN responses_by_stream :
       \A n \in 1..Len(responses_by_stream[S]) :
         /\ responses_by_stream[S][n].bytes \in Nat
         /\ responses_by_stream[S][n].bytes =
              ChainSize(rlines[responses_by_stream[S][n].rid][4],
                        rlines[responses_by_stream[S][n].rid][6])

\* No content-length and the body abc: the recorded size is 3.
C9_Witness ==
  /\ input = << <<>>, <<"a", "b", "c">> >>
  /\ 0 \in DOMAIN responses_by_stream
  /\ responses_by_stream[0] /= <<>>
  /\ responses_by_stream[0][1].bytes = 3
====
